---- MODULE Spec2Model ----
(***************************************************************************)
(* Cart, quotation snapshot and order-status / stock-commit workflow of    *)
(* the MixLab store (src/store/views.py, src/store/models.py).             *)
(*                                                                         *)
(* Spec     : every view is one atomic step (requests served one at a      *)
(*            time).                                                       *)
(* ConcSpec : two status-update requests run concurrently, one data-store  *)
(*            statement per step (the views open no transaction and take   *)
(*            no lock).                                                    *)
(* Money is counted in whole units; None is written NoPromo.               *)
(***************************************************************************)
EXTENDS Integers, FiniteSets, Sequences, TLC

\* ---------------------------------------------------------------- bounds
MaxStock == 2
MaxPrice == 2
MaxQty == 2
MaxEdits == 1
\* largest quantity a persisted cart entry is followed to (merge and the API
\* add have no upper limit)
MaxCartQty == 4

Products == {1, 2}
QuotationIds == {1, 2}
Who == {"user", "anon"}

\* promotional_price is None
NoPromo == 0

\* ------------------------------------------------- model constants (code)
QUOTATION_STATUS_CHOICES == {"generada", "enviada", "vencida", "cancelada"}
ORDER_STATUS_CHOICES ==
    {"sin_respuesta", "aceptado", "esperando_pago", "pago_recibido",
     "enviado", "recibido", "rechazado", "modificado_y_enviado"}
post_payment_statuses ==
    {"pago_recibido", "enviado", "recibido", "modificado_y_enviado"}

\* submitted form values ("" = field left out, "otro" = not a choice)
QsInputs == {"", "enviada"}
OsInputs == {"", "otro", "sin_respuesta", "rechazado", "pago_recibido", "enviado"}

VARIABLES
    price,              \* Product.price
    promotional_price,  \* Product.promotional_price (NoPromo = None)
    stock,              \* Product.stock
    available,          \* Product.available
    cart_items,         \* CartItem rows of the signed-in user: product -> quantity
    session_cart,       \* request.session['cart'] of the anonymous visitor
    session_quotation,  \* request.session['quotation'] of the staff builder
    quotations,         \* Quotation rows with their QuotationItem rows, by id
    stock_deductions,   \* history: per quotation, the stock found by each run of
                        \* _deduct_stock_for_quotation
    edits,              \* number of staff product edits so far (bounded)
    last,               \* the last request and its response
    req,                \* ConcSpec: the in-flight status-update requests
    shipping_addresses  \* ShippingAddress.is_default of one user's rows, by pk

vars == <<price, promotional_price, stock, available, cart_items, session_cart,
          session_quotation, quotations, stock_deductions, edits, last, req, shipping_addresses>>

catalog == <<price, promotional_price, stock, available>>
carts == <<cart_items, session_cart, session_quotation>>

\* ------------------------------------------------------------ dict helpers
Empty == [x \in {} |-> 0]
Get(d, k) == IF k \in DOMAIN d THEN d[k] ELSE 0
Put(d, k, v) == [x \in (DOMAIN d) \cup {k} |-> IF x = k THEN v ELSE d[x]]

RECURSIVE SumOver(_, _)
SumOver(S, f) ==
    IF S = {} THEN 0
    ELSE LET x == CHOOSE y \in S : TRUE IN f[x] + SumOver(S \ {x}, f)

Max0(n) == IF n < 0 THEN 0 ELSE n

\* ------------------------------------------------------------------ Product
\* (mutant: any promotional price counts as a discount)
has_discount_any_promo(p) == promotional_price[p] # NoPromo

has_discount(p) ==
    promotional_price[p] # NoPromo /\ promotional_price[p] < price[p]

selling_price(p) == IF has_discount(p) THEN promotional_price[p] ELSE price[p]

\* ---------------------------------------------------------------- Init
Init ==
    /\ price = [p \in Products |-> MaxPrice]
    /\ promotional_price = [p \in Products |-> IF p = 1 THEN 1 ELSE NoPromo]
    /\ stock = [p \in Products |-> MaxStock]
    /\ available = [p \in Products |-> TRUE]
    /\ cart_items = Empty
    /\ session_cart = Empty
    /\ session_quotation = Empty
    /\ quotations = Empty
    /\ stock_deductions = [q \in QuotationIds |-> << >>]
    /\ edits = 0
    /\ last = [op |-> "none"]
    /\ req = Empty
    /\ shipping_addresses = Empty

\* ------------------------------------------------------------------- cart
CartOf(who) == IF who = "user" THEN cart_items ELSE session_cart

SetCart(who, c) ==
    IF who = "user"
    THEN cart_items' = c /\ UNCHANGED session_cart
    ELSE session_cart' = c /\ UNCHANGED cart_items

AddReply(who, p, q, ok, avail, cq) ==
    [op |-> "add_to_cart", who |-> who, p |-> p, q |-> q, ok |-> ok,
     available_stock |-> avail, cart_quantity |-> cq]

\* (mutant: only the requested quantity is compared with the stock)
ExceedsStock_requested_only(e, quantity, s) == quantity > s

\* cart_item.quantity + quantity > product.stock (persisted cart),
\* current_quantity + quantity > product.stock (session cart)
ExceedsStock(e, quantity, s) == e + quantity > s

\* add_to_cart: 404 for a product that is not available; "no stock" when
\* stock <= 0; quantity < 1 is raised to 1; quantity and existing + quantity
\* are checked against stock; CartItem get_or_create / session dict update.
add_to_cart(who, p, q0) ==
    LET quantity == IF q0 < 1 THEN 1 ELSE q0
        e == Get(CartOf(who), p)
    IN  /\ UNCHANGED <<catalog, session_quotation, quotations, stock_deductions,
                       edits, req, shipping_addresses>>
        /\ IF ~available[p]
           THEN /\ last' = AddReply(who, p, q0, FALSE, -1, e)
                /\ UNCHANGED <<cart_items, session_cart>>
           ELSE IF stock[p] <= 0
           THEN /\ last' = AddReply(who, p, q0, FALSE, 0, e)
                /\ UNCHANGED <<cart_items, session_cart>>
           ELSE IF quantity > stock[p]
           THEN /\ last' = AddReply(who, p, q0, FALSE, stock[p], e)
                /\ UNCHANGED <<cart_items, session_cart>>
           ELSE IF ExceedsStock(e, quantity, stock[p])
           THEN /\ last' = AddReply(who, p, q0, FALSE, stock[p], e)
                /\ UNCHANGED <<cart_items, session_cart>>
           ELSE /\ SetCart(who, Put(CartOf(who), p, e + quantity))
                /\ last' = AddReply(who, p, q0, TRUE, stock[p], e + quantity)

\* cart.pop(product_id_str, None) / cart_item.delete()
Pop(f, k) == [x \in DOMAIN f \ {k} |-> f[x]]

UpdateReply(who, p, q, ok, error, available_stock, cart_quantity) ==
    [op |-> "update_cart_item", who |-> who, p |-> p, q |-> q, ok |-> ok,
     error |-> error, available_stock |-> available_stock,
     cart_quantity |-> cart_quantity]

\* update_cart_item (POST).  Signed-in: the CartItem of the user is looked up
\* (404 when there is none), quantity > stock is refused, quantity > 0 is
\* stored, else the item is deleted.  Anonymous: the product is looked up
\* with available=True (404 when not found), quantity > stock is refused,
\* quantity > 0 is stored in the session dict, else the key is popped.
update_cart_item(who, p, quantity) ==
    LET c == CartOf(who)
        e == Get(c, p)
    IN  /\ UNCHANGED <<catalog, session_quotation, quotations, stock_deductions,
                       edits, req, shipping_addresses>>
        /\ IF who = "user" /\ p \notin DOMAIN cart_items
           THEN /\ last' = UpdateReply(who, p, quantity, FALSE, "not_found", -1, e)
                /\ UNCHANGED <<cart_items, session_cart>>
           ELSE IF who = "anon" /\ ~available[p]
           THEN /\ last' = UpdateReply(who, p, quantity, FALSE, "not_found", -1, e)
                /\ UNCHANGED <<cart_items, session_cart>>
           ELSE IF quantity > stock[p]
           THEN /\ last' = UpdateReply(who, p, quantity, FALSE, "stock", stock[p], e)
                /\ UNCHANGED <<cart_items, session_cart>>
           ELSE IF quantity > 0
           THEN /\ SetCart(who, Put(c, p, quantity))
                /\ last' = UpdateReply(who, p, quantity, TRUE, "none", stock[p],
                                       quantity)
           ELSE /\ SetCart(who, Pop(c, p))
                /\ last' = UpdateReply(who, p, quantity, TRUE, "none", stock[p],
                                       IF who = "user" THEN 0 ELSE quantity)

\* remove_from_cart.  Signed-in: the CartItem of the user is looked up (404
\* "Item no encontrado" when there is none) and deleted.  Anonymous: the key
\* is popped from the session dict, present or not.
remove_from_cart(who, p) ==
    /\ UNCHANGED <<catalog, session_quotation, quotations, stock_deductions,
                   edits, req, shipping_addresses>>
    /\ IF who = "user" /\ p \notin DOMAIN cart_items
       THEN /\ last' = [op |-> "remove_from_cart", who |-> who, p |-> p,
                        ok |-> FALSE, error |-> "not_found"]
            /\ UNCHANGED <<cart_items, session_cart>>
       ELSE /\ SetCart(who, Pop(CartOf(who), p))
            /\ last' = [op |-> "remove_from_cart", who |-> who, p |-> p,
                        ok |-> TRUE, error |-> "none"]

\* guest_checkout_login (POST): failed authentication changes nothing; else
\* every session entry with quantity > 0 whose product is found with
\* available=True is added to the user's CartItem (created with the quantity,
\* or quantity += q), with no stock test, and the session cart is emptied.
guest_checkout_login(authenticated) ==
    LET merged == {p \in DOMAIN session_cart :
                      available[p] /\ session_cart[p] > 0}
        result == [p \in DOMAIN cart_items \cup merged |->
                      Get(cart_items, p)
                        + (IF p \in merged THEN session_cart[p] ELSE 0)]
    IN  /\ UNCHANGED <<catalog, session_quotation, quotations, stock_deductions,
                       edits, req, shipping_addresses>>
        /\ \A p \in DOMAIN result : result[p] <= MaxCartQty
        /\ last' = [op |-> "guest_checkout_login", ok |-> authenticated]
        /\ IF ~authenticated
           THEN UNCHANGED <<cart_items, session_cart>>
           ELSE /\ cart_items' = result
                /\ session_cart' = Empty

\* CartViewSet.add_item (API, signed-in): 404 for a product not found with
\* available=True; else CartItem get_or_create with the quantity as given,
\* or quantity += quantity; no test on the quantity or the stock.  A negative
\* result is refused by the PositiveIntegerField column.
add_item(p, quantity) ==
    LET result == Get(cart_items, p) + quantity
    IN  /\ UNCHANGED <<catalog, session_cart, session_quotation, quotations,
                       stock_deductions, edits, req, shipping_addresses>>
        /\ result <= MaxCartQty
        /\ IF ~available[p]
           THEN /\ last' = [op |-> "add_item", p |-> p, q |-> quantity,
                            ok |-> FALSE, status |-> 404]
                /\ UNCHANGED cart_items
           ELSE IF result < 0
           THEN /\ last' = [op |-> "add_item", p |-> p, q |-> quantity,
                            ok |-> FALSE, status |-> 500]
                /\ UNCHANGED cart_items
           ELSE /\ cart_items' = Put(cart_items, p, result)
                /\ last' = [op |-> "add_item", p |-> p, q |-> quantity,
                            ok |-> TRUE, status |-> 201]

\* Cart.total / Cart.item_count over the CartItem rows (CartItem.subtotal)
CartTotal == SumOver(DOMAIN cart_items,
                     [p \in DOMAIN cart_items |-> selling_price(p) * cart_items[p]])
CartItemCount == SumOver(DOMAIN cart_items, cart_items)

\* session cart total: entries whose product is found with available=True
SessionVisible(minq) ==
    {p \in DOMAIN session_cart : available[p] /\ session_cart[p] >= minq}
SessionTotal(S) ==
    SumOver(S, [p \in S |-> selling_price(p) * session_cart[p]])
SessionItemCount == SumOver(DOMAIN session_cart, session_cart)

CartReply(op, who, total, count) ==
    [op |-> op, who |-> who, cart_total |-> total, cart_item_count |-> count]

\* the cart page
cart(who) ==
    /\ last' = IF who = "user"
               THEN CartReply("cart", who, CartTotal, CartItemCount)
               ELSE CartReply("cart", who,
                              SessionTotal({p \in DOMAIN session_cart : available[p]}),
                              SessionItemCount)
    /\ UNCHANGED <<catalog, carts, quotations, stock_deductions, edits, req, shipping_addresses>>

\* the cart context processor run for every rendered page
context_cart(who) ==
    /\ last' = IF who = "user"
               THEN CartReply("context_cart", who, CartTotal, CartItemCount)
               ELSE CartReply("context_cart", who, SessionTotal(SessionVisible(1)),
                              SessionItemCount)
    /\ UNCHANGED <<catalog, carts, quotations, stock_deductions, edits, req, shipping_addresses>>

\* ------------------------------------------------------------- inventory
\* (mutant: a price edit that also re-prices the items of existing quotations)
inventory_edit_repricing(p, pr, promo, st, av) ==
    /\ edits < MaxEdits
    /\ edits' = edits + 1
    /\ last' = [op |-> "inventory_edit", p |-> p, ok |-> (st >= 0)]
    /\ IF st >= 0
       THEN /\ price' = [price EXCEPT ![p] = pr]
            /\ promotional_price' = [promotional_price EXCEPT ![p] = promo]
            /\ stock' = [stock EXCEPT ![p] = st]
            /\ available' = [available EXCEPT ![p] = av]
       ELSE UNCHANGED catalog
    /\ quotations' =
          [qid \in DOMAIN quotations |->
              [quotations[qid] EXCEPT !.items =
                  [x \in DOMAIN quotations[qid].items |->
                      IF x = p /\ st >= 0
                      THEN [quotations[qid].items[x] EXCEPT
                                !.unit_price = pr,
                                !.subtotal = pr * quotations[qid].items[x].quantity]
                      ELSE quotations[qid].items[x]]]]
    /\ UNCHANGED <<carts, stock_deductions, req, shipping_addresses>>

\* inventory_edit, save_section == 'pricing': writes price, promotional_price,
\* stock and available; a negative stock is refused by the PositiveIntegerField
\* column and nothing is saved.
inventory_edit(p, pr, promo, st, av) ==
    /\ edits < MaxEdits
    /\ edits' = edits + 1
    /\ last' = [op |-> "inventory_edit", p |-> p, ok |-> (st >= 0)]
    /\ IF st >= 0
       THEN /\ price' = [price EXCEPT ![p] = pr]
            /\ promotional_price' = [promotional_price EXCEPT ![p] = promo]
            /\ stock' = [stock EXCEPT ![p] = st]
            /\ available' = [available EXCEPT ![p] = av]
       ELSE UNCHANGED catalog
    /\ UNCHANGED <<carts, quotations, stock_deductions, req, shipping_addresses>>

inventory_toggle_available(p) ==
    /\ edits < MaxEdits
    /\ edits' = edits + 1
    /\ available' = [available EXCEPT ![p] = ~available[p]]
    /\ last' = [op |-> "inventory_toggle_available", p |-> p, ok |-> TRUE]
    /\ UNCHANGED <<price, promotional_price, stock, carts, quotations,
                   stock_deductions, req, shipping_addresses>>

\* ------------------------------------------------------ quotation snapshot
\* QuotationItem.save: subtotal = (unit_price or 0) * (quantity or 1)
QuotationItem_save(unit_price, quantity) ==
    [quantity |-> quantity, unit_price |-> unit_price,
     subtotal |-> unit_price * (IF quantity = 0 THEN 1 ELSE quantity)]

\* (mutant: items priced at the list price)
SnapshotItems_list_price(entries) ==
    [p \in DOMAIN entries |->
        [quantity |-> entries[p], unit_price |-> price[p],
         subtotal |-> price[p] * entries[p]]]

\* the loop creating one QuotationItem per (product, quantity) pair with
\* unit_price = product.selling_price
SnapshotItems(entries) ==
    [p \in DOMAIN entries |-> QuotationItem_save(selling_price(p), entries[p])]

\* (mutant: the header keeps the total it was created with)
ItemsTotal_unsaved(items) == 0

\* running_total += item.subtotal; quotation_obj.total = running_total
ItemsTotal(items) ==
    SumOver(DOMAIN items, [p \in DOMAIN items |-> items[p].subtotal])

\* Quotation.objects.create(..., total=0), the items, then total = running_total
NewQuotation(entries) ==
    LET items == SnapshotItems(entries)
    IN  [quotation_status |-> "generada", order_status |-> "sin_respuesta",
         payment_proof |-> FALSE, total |-> ItemsTotal(items), items |-> items]

NewId == CHOOSE i \in QuotationIds \ DOMAIN quotations :
            \A j \in QuotationIds \ DOMAIN quotations : i <= j

\* the sequential specifications follow one quotation from its creation on
CanCreate == DOMAIN quotations = {}

CreateReply(op, ok, qid) == [op |-> op, ok |-> ok, qid |-> qid]

\* what can happen to a notification: the two settings present or not, the
\* requests import, the sendMessage call, the PDF rendering, the sendDocument
\* call
NotifyInputs ==
    [token : BOOLEAN, chat_id : BOOLEAN, requests : BOOLEAN, text_ok : BOOLEAN,
     render_ok : BOOLEAN, document_ok : BOOLEAN]

\* (mutant: the exception of a failed sendMessage call is not caught)
notify_telegram_new_quotation_raising(n) ==
    IF ~n.token \/ ~n.chat_id \/ ~n.requests
    THEN [raised |-> FALSE, text |-> "skipped", document |-> "skipped"]
    ELSE [raised |-> ~n.text_ok,
          text |-> IF n.text_ok THEN "sent" ELSE "failed",
          document |-> IF ~n.text_ok THEN "skipped"
                       ELSE IF ~n.render_ok THEN "not_rendered"
                       ELSE IF n.document_ok THEN "sent" ELSE "failed"]

\* _notify_telegram_new_quotation: returns early without token or chat_id (or
\* without the requests module); every later failure is caught and logged,
\* and the document is attempted even when the text failed
notify_telegram_new_quotation(n) ==
    IF ~n.token \/ ~n.chat_id \/ ~n.requests
    THEN [raised |-> FALSE, text |-> "skipped", document |-> "skipped"]
    ELSE [raised |-> FALSE,
          text |-> IF n.text_ok THEN "sent" ELSE "failed",
          document |-> IF ~n.render_ok THEN "not_rendered"
                       ELSE IF n.document_ok THEN "sent" ELSE "failed"]

\* the response of checkout / guest_checkout after the notification: the
\* success page, or a server error if the notification raised
CheckoutReply(op, qid, notification) ==
    [op |-> op, ok |-> ~notification.raised, qid |-> qid,
     notification |-> notification]

\* (mutant: a checkout that takes the quoted quantities out of the stock)
checkout_reserving(complete) ==
    /\ CanCreate
    /\ UNCHANGED <<price, promotional_price, available, session_cart,
                   session_quotation, stock_deductions, edits, req,
                   shipping_addresses>>
    /\ IF DOMAIN cart_items = {} \/ ~complete
       THEN /\ last' = CreateReply("checkout", FALSE, 0)
            /\ UNCHANGED <<cart_items, quotations, stock>>
       ELSE /\ quotations' = Put(quotations, NewId, NewQuotation(cart_items))
            /\ stock' = [p \in Products |->
                            Max0(stock[p] - Get(cart_items, p))]
            /\ cart_items' = Empty
            /\ last' = [op |-> "checkout", ok |-> TRUE, qid |-> NewId]

\* checkout (POST): empty cart -> redirect; missing address fields -> error;
\* else quotation from the CartItem rows, then the cart is emptied and the
\* notification attempted
checkout(complete) ==
    /\ CanCreate
    /\ UNCHANGED <<catalog, session_cart, session_quotation, stock_deductions,
                   edits, req, shipping_addresses>>
    /\ IF DOMAIN cart_items = {} \/ ~complete
       THEN /\ last' = CreateReply("checkout", FALSE, 0)
            /\ UNCHANGED <<cart_items, quotations>>
       ELSE /\ quotations' = Put(quotations, NewId, NewQuotation(cart_items))
            /\ cart_items' = Empty
            /\ \E n \in NotifyInputs :
                  last' = CheckoutReply("checkout", NewId,
                                        notify_telegram_new_quotation(n))

\* guest_checkout (POST): entries whose product is available and quantity > 0
guest_checkout(form_valid) ==
    LET shown == [p \in SessionVisible(1) |-> session_cart[p]]
    IN  /\ CanCreate
        /\ UNCHANGED <<catalog, cart_items, session_quotation, stock_deductions,
                       edits, req, shipping_addresses>>
        /\ IF DOMAIN session_cart = {} \/ DOMAIN shown = {} \/ ~form_valid
           THEN /\ last' = CreateReply("guest_checkout", FALSE, 0)
                /\ UNCHANGED <<session_cart, quotations>>
           ELSE /\ quotations' = Put(quotations, NewId, NewQuotation(shown))
                /\ session_cart' = Empty
                /\ \E n \in NotifyInputs :
                      last' = CheckoutReply("guest_checkout", NewId,
                                            notify_telegram_new_quotation(n))

\* _get_quote_session: quantities below 1 are raised to 1
get_quote_session ==
    [p \in DOMAIN session_quotation |->
        IF session_quotation[p] < 1 THEN 1 ELSE session_quotation[p]]

\* quotation (POST, "Generar"): form and client data valid and a non-empty
\* builder session; products no longer available are skipped
quotation(form_valid) ==
    LET session_quote == get_quote_session
        found == [p \in {x \in DOMAIN session_quote : available[x]} |-> session_quote[p]]
    IN  /\ CanCreate
        /\ UNCHANGED <<catalog, cart_items, session_cart, stock_deductions, edits, req, shipping_addresses>>
        /\ IF DOMAIN session_quote = {} \/ ~form_valid
           THEN /\ last' = CreateReply("quotation", FALSE, 0)
                /\ session_quotation' = session_quote
                /\ UNCHANGED quotations
           ELSE /\ quotations' = Put(quotations, NewId, NewQuotation(found))
                /\ session_quotation' = Empty
                /\ last' = CreateReply("quotation", TRUE, NewId)

\* the client_* fields of QuotationForm read in the unregistered-client branch
ClientFields == {"client_kind", "client_name", "client_email", "client_phone",
                 "client_departamento", "client_city"}

\* (mutant: an elif chain, only the first missing field gets its message)
MissingMessages_first_only(blank) ==
    IF "client_kind" \in blank THEN {"client_kind"}
    ELSE IF "client_name" \in blank THEN {"client_name"}
    ELSE IF "client_email" \in blank THEN {"client_email"}
    ELSE IF "client_phone" \in blank THEN {"client_phone"}
    ELSE IF "client_departamento" \in blank \/ "client_city" \in blank
    THEN {"client_departamento_city"}
    ELSE {}

\* one messages.error per failed test; departamento and city share one test
MissingMessages(blank) ==
    (blank \cap {"client_kind", "client_name", "client_email", "client_phone"})
    \cup (IF "client_departamento" \in blank \/ "client_city" \in blank
          THEN {"client_departamento_city"} ELSE {})

\* quotation (POST, "Generar") with a valid form and the unregistered-client
\* branch taken: `blank` are the client fields that arrive empty
quotation_unregistered(blank) ==
    LET session_quote == get_quote_session
        found == [p \in {x \in DOMAIN session_quote : available[x]} |-> session_quote[p]]
        reported == IF DOMAIN session_quote # {} THEN MissingMessages(blank) ELSE {}
        valid_client == reported = {}
    IN  /\ CanCreate
        /\ UNCHANGED <<catalog, cart_items, session_cart, stock_deductions, edits, req, shipping_addresses>>
        /\ IF DOMAIN session_quote = {} \/ ~valid_client
           THEN /\ last' = [op |-> "quotation", ok |-> FALSE, qid |-> 0,
                            blank |-> blank, reported |-> reported]
                /\ session_quotation' = session_quote
                /\ UNCHANGED quotations
           ELSE /\ quotations' = Put(quotations, NewId, NewQuotation(found))
                /\ session_quotation' = Empty
                /\ last' = [op |-> "quotation", ok |-> TRUE, qid |-> NewId,
                            blank |-> blank, reported |-> reported]

\* quotation_ajax_add: products found available and not yet in the session
\* enter it with quantity 1
quotation_ajax_add(ids) ==
    LET q == get_quote_session
        new == {p \in ids : available[p] /\ p \notin DOMAIN q}
    IN  /\ session_quotation' = [p \in DOMAIN q \cup new |-> IF p \in new THEN 1 ELSE q[p]]
        /\ last' = [op |-> "quotation_ajax_add", added |-> Cardinality(new)]
        /\ UNCHANGED <<catalog, cart_items, session_cart, quotations,
                       stock_deductions, edits, req, shipping_addresses>>

\* quotation_ajax_remove: q.pop(product_id, None)
quotation_ajax_remove(p) ==
    LET q == get_quote_session
    IN  /\ session_quotation' = [x \in DOMAIN q \ {p} |-> q[x]]
        /\ last' = [op |-> "quotation_ajax_remove", p |-> p]
        /\ UNCHANGED <<catalog, cart_items, session_cart, quotations,
                       stock_deductions, edits, req, shipping_addresses>>

\* quotation_ajax_update_qty: qty < 1 is raised to 1; only a product already
\* in the session is updated
quotation_ajax_update_qty(p, qty) ==
    LET q == get_quote_session
        qty_int == IF qty < 1 THEN 1 ELSE qty
    IN  /\ session_quotation' = IF p \in DOMAIN q THEN [q EXCEPT ![p] = qty_int] ELSE q
        /\ last' = [op |-> "quotation_ajax_update_qty", p |-> p, qty |-> qty]
        /\ UNCHANGED <<catalog, cart_items, session_cart, quotations,
                       stock_deductions, edits, req, shipping_addresses>>

\* ------------------------------------------------- status and stock commit
\* (mutant: the deduction without its floor)
StockAfter_unfloored(s, qty) == s - qty

\* new_stock = current_stock - qty; if new_stock < 0: new_stock = 0
StockAfter(s, qty) == Max0(s - qty)

\* _deduct_stock_for_quotation: per item, stock = max(0, stock - quantity),
\* items with quantity <= 0 skipped (each product occurs in one item)
deduct_stock_for_quotation(st, items) ==
    [p \in Products |->
        IF p \in DOMAIN items /\ items[p].quantity > 0
        THEN StockAfter(st[p], items[p].quantity)
        ELSE st[p]]

\* the request (quotation, submitted order_status), the order_status it found
\* (previous_status) and what became of the order_status change
StatusReply(op, qid, os, prev, result) ==
    [op |-> op, qid |-> qid, os |-> os, prev |-> prev, result |-> result]

\* quotation_detail (POST with a payment_proof file)
upload_payment_proof(qid) ==
    /\ qid \in DOMAIN quotations
    /\ quotations' = [quotations EXCEPT ![qid].payment_proof = TRUE]
    /\ last' = StatusReply("upload_payment_proof", qid, "", quotations[qid].order_status, "saved")
    /\ UNCHANGED <<catalog, carts, stock_deductions, edits, req, shipping_addresses>>

QsApplies(q, qs) ==
    qs # "" /\ qs \in QUOTATION_STATUS_CHOICES /\ qs # q.quotation_status
OsApplies(q, os) ==
    os # "" /\ os \in ORDER_STATUS_CHOICES /\ os # q.order_status
\* (mutant: no payment proof asked for)
NeedsProof_never(q, os) == FALSE

NeedsProof(q, os) == os \in post_payment_statuses /\ ~q.payment_proof

\* (mutant: no check against leaving a post-payment status)
GoesBack_never(q, os) == FALSE

GoesBack(q, os) ==
    q.order_status \in post_payment_statuses /\ os \notin post_payment_statuses

\* (mutant: the previous status is not looked at)
FirstEntry_any(q, os) == os \in post_payment_statuses

FirstEntry(q, os) ==
    os \in post_payment_statuses /\ q.order_status \notin post_payment_statuses

\* (mutant: a post-payment status is accepted without a payment proof)
OsResult_proof_unchecked(q, os) ==
    IF ~OsApplies(q, os) THEN "unchanged"
    ELSE IF GoesBack(q, os) THEN "irreversible"
    ELSE "applied"

OsResult(q, os) ==
    IF ~OsApplies(q, os) THEN "unchanged"
    ELSE IF NeedsProof(q, os) THEN "proof_required"
    ELSE IF GoesBack(q, os) THEN "irreversible"
    ELSE "applied"

\* the row quotation_ajax_set_status leaves: a rejected order_status returns
\* before the save, so a quotation_status submitted with it is not saved either
ajax_set_status_saved(q, qs, os) ==
    LET res == OsResult(q, os)
        q1 == IF QsApplies(q, qs) THEN [q EXCEPT !.quotation_status = qs] ELSE q
    IN  IF res \in {"proof_required", "irreversible"} THEN q
        ELSE IF res = "applied" THEN [q1 EXCEPT !.order_status = os]
        ELSE q1

\* the row quotation_detail leaves: a rejected order_status only warns; a
\* quotation_status submitted with it is still saved
detail_saved(q, qs, os) ==
    LET res == OsResult(q, os)
        q1 == IF QsApplies(q, qs) THEN [q EXCEPT !.quotation_status = qs] ELSE q
    IN  IF res = "applied" THEN [q1 EXCEPT !.order_status = os]
        ELSE q1

\* quotation_ajax_set_status
quotation_ajax_set_status(qid, qs, os) ==
    /\ qid \in DOMAIN quotations
    /\ LET q == quotations[qid]
           res == OsResult(q, os)
       IN  /\ last' = StatusReply("quotation_ajax_set_status", qid, os, q.order_status, res)
           /\ IF res = "applied" /\ FirstEntry(q, os)
              THEN /\ stock' = deduct_stock_for_quotation(stock, q.items)
                   /\ stock_deductions' =
                         [stock_deductions EXCEPT ![qid] = Append(@, stock)]
              ELSE UNCHANGED <<stock, stock_deductions>>
           /\ quotations' = [quotations EXCEPT
                               ![qid] = ajax_set_status_saved(q, qs, os)]
    /\ UNCHANGED <<price, promotional_price, available, carts, edits, req, shipping_addresses>>

\* quotation_detail (POST, staff)
quotation_detail(qid, qs, os) ==
    /\ qid \in DOMAIN quotations
    /\ LET q == quotations[qid]
           res == OsResult(q, os)
       IN  /\ last' = StatusReply("quotation_detail", qid, os, q.order_status, res)
           /\ IF res = "applied" /\ FirstEntry(q, os)
              THEN /\ stock' = deduct_stock_for_quotation(stock, q.items)
                   /\ stock_deductions' =
                         [stock_deductions EXCEPT ![qid] = Append(@, stock)]
              ELSE UNCHANGED <<stock, stock_deductions>>
           /\ quotations' = [quotations EXCEPT ![qid] = detail_saved(q, qs, os)]
    /\ UNCHANGED <<price, promotional_price, available, carts, edits, req, shipping_addresses>>

\* ---------------------------------------------------------- specifications
\* values a staff member submits in the pricing section: the form comes filled
\* with the product's current values and one part of it is changed
EditInputs == (1..MaxPrice) \X ({NoPromo} \cup 1..MaxPrice) \X (-1..MaxStock) \X BOOLEAN
PriceEdits(p) == {e \in EditInputs : e[3] = stock[p]}
StockEdits(p) ==
    {e \in EditInputs : e[1] = price[p] /\ e[2] = promotional_price[p]
                        /\ e[4] = available[p]}

\* ---- CartSpec: the cart requests, with staff edits of the catalog in between
CartNext ==
    \/ \E who \in Who, p \in Products, q \in 0..MaxQty : add_to_cart(who, p, q)
    \/ \E who \in Who : cart(who)
    \/ \E who \in Who : context_cart(who)
    \/ \E p \in Products : \E e \in PriceEdits(p) \cup StockEdits(p) :
          inventory_edit(p, e[1], e[2], e[3], e[4])
    \/ \E p \in Products : inventory_toggle_available(p)

CartSpec == Init /\ [][CartNext]_vars

\* ---- CartOpsSpec: every writer of the two carts, with products switched
\* off and on in between
CartOpsNext ==
    \/ \E who \in Who, p \in Products, q \in 1..MaxQty : add_to_cart(who, p, q)
    \/ \E who \in Who, p \in Products, q \in -1..(MaxQty + 1) :
          update_cart_item(who, p, q)
    \/ \E who \in Who, p \in Products : remove_from_cart(who, p)
    \/ \E authenticated \in BOOLEAN : guest_checkout_login(authenticated)
    \/ \E p \in Products, q \in -1..MaxQty : add_item(p, q)
    \/ \E p \in Products : inventory_toggle_available(p)

CartOpsSpec == Init /\ [][CartOpsNext]_vars

\* ---- PriceSpec: the selling price read for every combination of list and
\* promotional price
PriceInputs == (1..MaxPrice) \X ({NoPromo} \cup 1..MaxPrice)

PriceInit ==
    /\ \E f \in [Products -> PriceInputs] :
          /\ price = [p \in Products |-> f[p][1]]
          /\ promotional_price = [p \in Products |-> f[p][2]]
    /\ stock = [p \in Products |-> MaxStock]
    /\ available = [p \in Products |-> TRUE]
    /\ cart_items = Empty
    /\ session_cart = Empty
    /\ session_quotation = Empty
    /\ quotations = Empty
    /\ stock_deductions = [q \in QuotationIds |-> << >>]
    /\ edits = 0
    /\ last = [op |-> "none"]
    /\ req = Empty
    /\ shipping_addresses = Empty

\* a read of product.selling_price and product.has_discount
Product_selling_price(p) ==
    /\ last' = [op |-> "selling_price", p |-> p, value |-> selling_price(p),
                has_discount |-> has_discount(p)]
    /\ UNCHANGED <<catalog, carts, quotations, stock_deductions, edits, req, shipping_addresses>>

PriceNext ==
    \/ \E p \in Products : Product_selling_price(p)
    \/ \E p \in Products : \E e \in PriceEdits(p) :
          inventory_edit(p, e[1], e[2], e[3], e[4])

PriceSpec == PriceInit /\ [][PriceNext]_vars

\* ---- OrderSpec: the carts filled by every writer, with staff stock edits
\* in between, up to the checkout or guest_checkout that creates the quotation
OrderNext ==
    \/ /\ CanCreate
       /\ \E who \in Who, p \in Products, q \in 1..MaxQty : add_to_cart(who, p, q)
    \/ /\ CanCreate
       /\ \E who \in Who, p \in Products, q \in 0..MaxQty :
             update_cart_item(who, p, q)
    \/ /\ CanCreate
       /\ \E authenticated \in BOOLEAN : guest_checkout_login(authenticated)
    \/ /\ CanCreate
       /\ \E p \in Products, q \in 0..MaxQty : add_item(p, q)
    \/ /\ CanCreate
       /\ \E p \in Products : \E e \in StockEdits(p) :
             inventory_edit(p, e[1], e[2], e[3], e[4])
    \/ \E complete \in BOOLEAN : checkout(complete)
    \/ \E form_valid \in BOOLEAN : guest_checkout(form_valid)

OrderSpec == Init /\ [][OrderNext]_vars

\* carts as earlier add_to_cart requests left them (within stock)
FilledCarts == [Products -> 1..MaxQty]

FilledInit ==
    /\ price = [p \in Products |-> MaxPrice]
    /\ promotional_price = [p \in Products |-> IF p = 1 THEN 1 ELSE NoPromo]
    /\ stock = [p \in Products |-> MaxStock]
    /\ available = [p \in Products |-> TRUE]
    /\ \E c \in FilledCarts :
          cart_items = c /\ session_cart = c /\ session_quotation = c
    /\ quotations = Empty
    /\ stock_deductions = [q \in QuotationIds |-> << >>]
    /\ edits = 0
    /\ last = [op |-> "none"]
    /\ req = Empty
    /\ shipping_addresses = Empty

\* ---- SnapshotSpec: quotation creation, with staff price edits in between
SnapshotNext ==
    \/ \E complete \in BOOLEAN : checkout(complete)
    \/ \E form_valid \in BOOLEAN : guest_checkout(form_valid)
    \/ \E form_valid \in BOOLEAN : quotation(form_valid)
    \/ \E p \in Products : \E e \in PriceEdits(p) :
          inventory_edit(p, e[1], e[2], e[3], e[4])
    \/ \E p \in Products : inventory_toggle_available(p)

SnapshotSpec == FilledInit /\ [][SnapshotNext]_vars

\* ---- Spec: a quotation from its creation through payment proof and status
\* updates, with staff stock edits in between
Next ==
    \/ \E complete \in BOOLEAN : checkout(complete)
    \/ \E form_valid \in BOOLEAN : guest_checkout(form_valid)
    \/ \E form_valid \in BOOLEAN : quotation(form_valid)
    \/ \E qid \in QuotationIds : upload_payment_proof(qid)
    \/ \E qid \in QuotationIds, qs \in QsInputs, os \in OsInputs :
          quotation_ajax_set_status(qid, qs, os)
    \/ \E qid \in QuotationIds, qs \in QsInputs, os \in OsInputs :
          quotation_detail(qid, qs, os)
    \/ \E p \in Products : \E e \in StockEdits(p) :
          inventory_edit(p, e[1], e[2], e[3], e[4])

Spec == FilledInit /\ [][Next]_vars

\* ---- StockSpec: the cart requests (on the first product) and the login
\* merge, then a quotation from its creation to the stock commit, with staff
\* stock edits in between
StockOsInputs == {"pago_recibido"}

StockNext ==
    \/ /\ CanCreate
       /\ \E who \in Who, p \in {1}, q \in 1..MaxQty : add_to_cart(who, p, q)
    \/ /\ CanCreate
       /\ \E who \in Who, p \in {1}, q \in {0, 1} :
             update_cart_item(who, p, q)
    \/ /\ CanCreate
       /\ \E who \in Who, p \in {1} : remove_from_cart(who, p)
    \/ /\ CanCreate
       /\ \E authenticated \in BOOLEAN : guest_checkout_login(authenticated)
    \/ \E complete \in BOOLEAN : checkout(complete)
    \/ \E form_valid \in BOOLEAN : guest_checkout(form_valid)
    \/ \E form_valid \in BOOLEAN : quotation(form_valid)
    \/ \E qid \in QuotationIds : upload_payment_proof(qid)
    \/ \E qid \in QuotationIds, os \in StockOsInputs :
          quotation_ajax_set_status(qid, "", os)
    \/ \E qid \in QuotationIds, os \in StockOsInputs :
          quotation_detail(qid, "", os)
    \/ \E p \in Products : \E e \in StockEdits(p) :
          inventory_edit(p, e[1], e[2], e[3], e[4])

StockSpec == FilledInit /\ [][StockNext]_vars

\* ---- TotalSpec: a quotation from its creation through payment proof and
\* status updates (with the stock deduction), with staff price edits in between
TotalOsInputs == {"rechazado", "pago_recibido", "enviado"}

TotalNext ==
    \/ \E complete \in BOOLEAN : checkout(complete)
    \/ \E form_valid \in BOOLEAN : guest_checkout(form_valid)
    \/ \E form_valid \in BOOLEAN : quotation(form_valid)
    \/ \E qid \in QuotationIds : upload_payment_proof(qid)
    \/ \E qid \in QuotationIds, os \in TotalOsInputs :
          quotation_ajax_set_status(qid, "", os)
    \/ \E qid \in QuotationIds, os \in TotalOsInputs :
          quotation_detail(qid, "enviada", os)
    \/ \E p \in Products : \E e \in PriceEdits(p) :
          inventory_edit(p, e[1], e[2], e[3], e[4])

TotalSpec == FilledInit /\ [][TotalNext]_vars

\* (mutant: the guard looks at the status only on the confirmation page)
DeleteRefused_never(q, is_superuser) == FALSE

\* q.order_status in post_payment_statuses and not request.user.is_superuser
DeleteRefused(q, is_superuser) ==
    q.order_status \in post_payment_statuses /\ ~is_superuser

\* quotation_delete by a staff user: refused by the guard, deleted with its
\* items (POST), or the confirmation page (GET)
quotation_delete(qid, is_superuser, post) ==
    /\ qid \in DOMAIN quotations
    /\ LET q == quotations[qid]
           result == IF DeleteRefused(q, is_superuser) THEN "refused"
                     ELSE IF post THEN "deleted" ELSE "confirm"
       IN  /\ last' = [op |-> "quotation_delete", qid |-> qid,
                       is_superuser |-> is_superuser, post |-> post,
                       prev |-> q.order_status, result |-> result]
           /\ IF result = "deleted"
              THEN /\ quotations' = [x \in DOMAIN quotations \ {qid} |-> quotations[x]]
                   /\ stock_deductions' = [stock_deductions EXCEPT ![qid] = << >>]
              ELSE UNCHANGED <<quotations, stock_deductions>>
    /\ UNCHANGED <<catalog, carts, edits, req, shipping_addresses>>

\* ---- DeleteSpec: quotations created, paid and deleted
DeleteNext ==
    \/ \E complete \in BOOLEAN : checkout(complete)
    \/ \E form_valid \in BOOLEAN : guest_checkout(form_valid)
    \/ \E form_valid \in BOOLEAN : quotation(form_valid)
    \/ \E qid \in QuotationIds : upload_payment_proof(qid)
    \/ \E qid \in QuotationIds, os \in TotalOsInputs :
          quotation_ajax_set_status(qid, "", os)
    \/ \E qid \in QuotationIds, is_superuser \in BOOLEAN, post \in BOOLEAN :
          quotation_delete(qid, is_superuser, post)

DeleteSpec == FilledInit /\ [][DeleteNext]_vars

\* ---- QuoteSpec: the staff quotation builder: its session, the "Generar"
\* request for a registered and for an unregistered client, and products
\* going out of the catalogue in between
QuoteNext ==
    \/ \E ids \in SUBSET Products : quotation_ajax_add(ids)
    \/ \E p \in Products : quotation_ajax_remove(p)
    \/ \E p \in Products, qty \in 0..MaxQty : quotation_ajax_update_qty(p, qty)
    \/ \E form_valid \in BOOLEAN : quotation(form_valid)
    \/ \E blank \in SUBSET ClientFields : quotation_unregistered(blank)
    \/ \E p \in Products : inventory_toggle_available(p)

QuoteSpec == Init /\ [][QuoteNext]_vars

\* ---- CreateSpec: one quotation-creating request, statement by statement.
\* No view opens a transaction, so each statement (header insert, item insert,
\* total update, cart clearing) is committed on its own, and the request may
\* die between two of them (an exception, a lost connection).
CreateInit ==
    /\ price = [p \in Products |-> MaxPrice]
    /\ promotional_price = [p \in Products |-> IF p = 1 THEN 1 ELSE NoPromo]
    /\ stock = [p \in Products |-> MaxStock]
    /\ available \in [Products -> BOOLEAN]
    /\ \E c \in FilledCarts :
          cart_items = c /\ session_cart = c /\ session_quotation = c
    /\ quotations = Empty
    /\ stock_deductions = [q \in QuotationIds |-> << >>]
    /\ edits = 0
    /\ last = [op |-> "none"]
    /\ req = [i \in {1} |-> [pc |-> "start"]]
    /\ shipping_addresses = Empty

\* the (product, quantity) pairs each view turns into items
CreateEntries(op) ==
    IF op = "checkout" THEN cart_items
    ELSE IF op = "guest_checkout"
    THEN [p \in SessionVisible(1) |-> session_cart[p]]
    ELSE [p \in {x \in DOMAIN get_quote_session : available[x]} |->
             get_quote_session[p]]

\* Quotation.objects.create(..., total=Decimal('0.00'))
cr_header(op) ==
    /\ UNCHANGED shipping_addresses
    /\ req[1].pc = "start"
    /\ IF op = "quotation" THEN DOMAIN session_quotation # {}
       ELSE DOMAIN CreateEntries(op) # {}
    /\ quotations' = Put(quotations, NewId,
                         [quotation_status |-> "generada",
                          order_status |-> "sin_respuesta",
                          payment_proof |-> FALSE, total |-> 0, items |-> Empty])
    /\ req' = [req EXCEPT ![1] =
                 [pc |-> "items", op |-> op, qid |-> NewId,
                  entries |-> CreateEntries(op), todo |-> DOMAIN CreateEntries(op),
                  running_total |-> 0]]
    /\ UNCHANGED <<catalog, carts, stock_deductions, edits, last>>

\* one turn of the loop: QuotationItem.objects.create(...);
\* running_total += item.subtotal
cr_item ==
    /\ UNCHANGED shipping_addresses
    /\ req[1].pc = "items"
    /\ req[1].todo # {}
    /\ LET r == req[1]
           p == CHOOSE x \in r.todo : \A y \in r.todo : x <= y
           item == QuotationItem_save(selling_price(p), r.entries[p])
       IN  /\ quotations' = [quotations EXCEPT ![r.qid].items = Put(@, p, item)]
           /\ req' = [req EXCEPT ![1].todo = @ \ {p},
                                 ![1].running_total = @ + item.subtotal]
    /\ UNCHANGED <<catalog, carts, stock_deductions, edits, last>>

\* quotation_obj.total = running_total; save(update_fields=['total', ...])
cr_total ==
    /\ UNCHANGED shipping_addresses
    /\ req[1].pc = "items"
    /\ req[1].todo = {}
    /\ quotations' = [quotations EXCEPT ![req[1].qid].total = req[1].running_total]
    /\ req' = [req EXCEPT ![1].pc = "clear"]
    /\ UNCHANGED <<catalog, carts, stock_deductions, edits, last>>

\* cart_obj.items.all().delete() / request.session['cart'] = {} /
\* request.session['quotation'] = {}, then the response
cr_clear ==
    /\ UNCHANGED shipping_addresses
    /\ req[1].pc = "clear"
    /\ IF req[1].op = "checkout"
       THEN cart_items' = Empty /\ UNCHANGED <<session_cart, session_quotation>>
       ELSE IF req[1].op = "guest_checkout"
       THEN session_cart' = Empty /\ UNCHANGED <<cart_items, session_quotation>>
       ELSE session_quotation' = Empty /\ UNCHANGED <<cart_items, session_cart>>
    /\ req' = [req EXCEPT ![1].pc = "done"]
    /\ last' = CreateReply(req[1].op, TRUE, req[1].qid)
    /\ UNCHANGED <<catalog, quotations, stock_deductions, edits>>

\* the request dies after the header insert: what was saved stays saved
cr_fail ==
    /\ UNCHANGED shipping_addresses
    /\ req[1].pc \in {"items", "clear"}
    /\ req' = [req EXCEPT ![1].pc = "failed"]
    /\ last' = CreateReply(req[1].op, FALSE, req[1].qid)
    /\ UNCHANGED <<catalog, carts, quotations, stock_deductions, edits>>

CreateNext ==
    \/ \E op \in {"checkout", "guest_checkout", "quotation"} : cr_header(op)
    \/ cr_item
    \/ cr_total
    \/ cr_clear
    \/ cr_fail

CreateSpec == CreateInit /\ [][CreateNext]_vars

\* ---- ConcSpec: two status-update requests in flight at once.  No view
\* opens a transaction or locks a row, so every data-store statement of a
\* request is a step of its own and the other request may run in between.
\* ---- AddressSpec: ShippingAddress.save, its two statements interleaved
\* between two requests of the same user
Addresses == {1, 2}
Savers == {1, 2}

AddressInit ==
    /\ price = [p \in Products |-> MaxPrice]
    /\ promotional_price = [p \in Products |-> IF p = 1 THEN 1 ELSE NoPromo]
    /\ stock = [p \in Products |-> MaxStock]
    /\ available = [p \in Products |-> TRUE]
    /\ cart_items = Empty
    /\ session_cart = Empty
    /\ session_quotation = Empty
    /\ quotations = Empty
    /\ stock_deductions = [q \in QuotationIds |-> << >>]
    /\ edits = 0
    /\ last = [op |-> "none"]
    /\ req = [i \in Savers |-> [pc |-> "start"]]
    /\ shipping_addresses = [a \in {} |-> FALSE]

\* a request calls save() on the address with primary key pk (a new row or
\* an existing one) with the given is_default
sa_begin(i, pk, is_default) ==
    /\ req[i].pc = "start"
    /\ req' = [req EXCEPT ![i] = [pc |-> IF is_default THEN "unset" ELSE "save",
                                  pk |-> pk, is_default |-> is_default]]
    /\ UNCHANGED <<catalog, carts, quotations, stock_deductions, edits, last,
                   shipping_addresses>>

\* ShippingAddress.objects.filter(user=self.user, is_default=True)
\*     .exclude(pk=self.pk).update(is_default=False)
sa_unset(i) ==
    /\ req[i].pc = "unset"
    /\ shipping_addresses' =
          [a \in DOMAIN shipping_addresses |->
              IF a # req[i].pk THEN FALSE ELSE shipping_addresses[a]]
    /\ req' = [req EXCEPT ![i].pc = "save"]
    /\ UNCHANGED <<catalog, carts, quotations, stock_deductions, edits, last>>

\* super().save(): the row is inserted or updated with its is_default
sa_save(i) ==
    /\ req[i].pc = "save"
    /\ shipping_addresses' =
          [a \in DOMAIN shipping_addresses \cup {req[i].pk} |->
              IF a = req[i].pk THEN req[i].is_default ELSE shipping_addresses[a]]
    /\ last' = [op |-> "ShippingAddress_save", pk |-> req[i].pk,
                is_default |-> req[i].is_default]
    /\ req' = [req EXCEPT ![i] = [pc |-> "start"]]
    /\ UNCHANGED <<catalog, carts, quotations, stock_deductions, edits>>

AddressNext ==
    \/ \E i \in Savers, pk \in Addresses, is_default \in BOOLEAN :
          sa_begin(i, pk, is_default)
    \/ \E i \in Savers : sa_unset(i)
    \/ \E i \in Savers : sa_save(i)

AddressSpec == AddressInit /\ [][AddressNext]_vars

Procs == {1, 2}
Handlers == {"quotation_ajax_set_status", "quotation_detail"}
ConcOsInputs == {"rechazado", "pago_recibido", "enviado"}

\* quotations 1 and 2 exist with a payment proof, quotation 1 with an item for
\* each product and quotation 2 with an item for product 1
ConcInit ==
    /\ price = [p \in Products |-> MaxPrice]
    /\ promotional_price = [p \in Products |-> NoPromo]
    /\ stock = [p \in Products |-> MaxStock]
    /\ available = [p \in Products |-> TRUE]
    /\ cart_items = Empty
    /\ session_cart = Empty
    /\ session_quotation = Empty
    /\ \E q1 \in 1..MaxQty, q2 \in 1..MaxQty :
          quotations =
            [i \in QuotationIds |->
                [NewQuotation(IF i = 1 THEN [p \in Products |-> q1] ELSE [p \in {1} |-> q2])
                    EXCEPT !.payment_proof = TRUE]]
    /\ stock_deductions = [q \in QuotationIds |-> << >>]
    /\ edits = 0
    /\ last = [op |-> "none", stock0 |-> stock]
    /\ req = [i \in Procs |-> [pc |-> "start"]]
    /\ shipping_addresses = Empty

\* Quotation.objects.get / get_object_or_404, then the checks on the loaded
\* object: which fields the request will save and whether it deducts stock
cs_load(i, handler, qid, qs, os) ==
    /\ UNCHANGED shipping_addresses
    /\ req[i].pc = "start"
    /\ qid \in DOMAIN quotations
    /\ LET q == quotations[qid]
           res == OsResult(q, os)
           q1 == IF QsApplies(q, qs) THEN [q EXCEPT !.quotation_status = qs] ELSE q
           obj == IF res = "applied" THEN [q1 EXCEPT !.order_status = os] ELSE q1
           rejected == res \in {"proof_required", "irreversible"}
           fields ==
               IF handler = "quotation_detail"
               THEN IF QsApplies(q, qs) \/ res = "applied"
                    THEN {"quotation_status", "order_status"} ELSE {}
               ELSE IF rejected THEN {}
               ELSE (IF QsApplies(q, qs) THEN {"quotation_status"} ELSE {})
                    \cup (IF res = "applied" THEN {"order_status"} ELSE {})
           pc == IF res = "applied" /\ FirstEntry(q, os) THEN "items"
                 ELSE IF fields # {} THEN "save" ELSE "done"
       IN  req' = [req EXCEPT ![i] =
                    [pc |-> pc, handler |-> handler, qid |-> qid, qs |-> qs, os |-> os,
                     result |-> res, obj |-> obj, fields |-> fields,
                     snap |-> Empty, todo |-> {}]]
    /\ UNCHANGED <<catalog, carts, quotations, stock_deductions, edits, last>>

\* _deduct_stock_for_quotation: quotation.items.select_related('product') reads
\* the items and their products' stock in one query
cs_items(i) ==
    /\ UNCHANGED shipping_addresses
    /\ req[i].pc = "items"
    /\ LET items == quotations[req[i].qid].items
       IN  req' = [req EXCEPT ![i].pc = "deduct",
                              ![i].snap = [p \in DOMAIN items |-> stock[p]],
                              ![i].todo = {p \in DOMAIN items : items[p].quantity > 0}]
    /\ stock_deductions' = [stock_deductions EXCEPT ![req[i].qid] = Append(@, stock)]
    /\ UNCHANGED <<catalog, carts, quotations, edits, last>>

\* one turn of the loop: product.stock = max(0, current_stock - qty) from the
\* stock read by the query, saved with update_fields=['stock'] when it differs
cs_deduct(i) ==
    /\ UNCHANGED shipping_addresses
    /\ req[i].pc = "deduct"
    /\ req[i].todo # {}
    /\ LET p == CHOOSE x \in req[i].todo : \A y \in req[i].todo : x <= y
           current_stock == req[i].snap[p]
           new_stock == StockAfter(current_stock, req[i].obj.items[p].quantity)
       IN  /\ stock' = IF new_stock # current_stock
                       THEN [stock EXCEPT ![p] = new_stock] ELSE stock
           /\ req' = [req EXCEPT ![i].todo = @ \ {p}]
    /\ UNCHANGED <<price, promotional_price, available, carts, quotations,
                   stock_deductions, edits, last>>

cs_deducted(i) ==
    /\ UNCHANGED shipping_addresses
    /\ req[i].pc = "deduct"
    /\ req[i].todo = {}
    /\ req' = [req EXCEPT ![i].pc = "save"]
    /\ UNCHANGED <<catalog, carts, quotations, stock_deductions, edits, last>>

\* save(update_fields=...): the listed fields are written from the loaded object
cs_save(i) ==
    /\ UNCHANGED shipping_addresses
    /\ req[i].pc = "save"
    /\ LET r == req[i]
           q == quotations[r.qid]
       IN  quotations' = [quotations EXCEPT ![r.qid] =
              [q EXCEPT !.quotation_status =
                            IF "quotation_status" \in r.fields
                            THEN r.obj.quotation_status ELSE @,
                        !.order_status =
                            IF "order_status" \in r.fields
                            THEN r.obj.order_status ELSE @]]
    /\ req' = [req EXCEPT ![i].pc = "done"]
    /\ UNCHANGED <<catalog, carts, stock_deductions, edits, last>>

ConcNext ==
    \/ \E i \in Procs, h \in Handlers, qid \in QuotationIds, os \in ConcOsInputs :
          cs_load(i, h, qid, "", os)
    \/ \E i \in Procs : cs_items(i)
    \/ \E i \in Procs : cs_deduct(i)
    \/ \E i \in Procs : cs_deducted(i)
    \/ \E i \in Procs : cs_save(i)

ConcSpec == ConcInit /\ [][ConcNext]_vars

AllDone == \A i \in Procs : req[i].pc = "done"

\* ---- RetrySpec: a status request that can die between two of its writes
\* (an exception, a lost connection, a killed worker), and the next request
\* after it; each write already made stays (no transaction around them)
cs_fail(i) ==
    /\ req[i].pc \in {"deduct", "save"}
    /\ req' = [req EXCEPT ![i].pc = "failed"]
    /\ UNCHANGED <<catalog, carts, quotations, stock_deductions, edits, last,
                   shipping_addresses>>

RetryNext ==
    \/ \E h \in Handlers, qid \in QuotationIds, os \in ConcOsInputs :
          cs_load(1, h, qid, "", os)
    \/ /\ req[1].pc \in {"done", "failed"}
       /\ \E h \in Handlers, qid \in QuotationIds, os \in ConcOsInputs :
             cs_load(2, h, qid, "", os)
    \/ \E i \in Procs : cs_items(i)
    \/ \E i \in Procs : cs_deduct(i)
    \/ \E i \in Procs : cs_deducted(i)
    \/ \E i \in Procs : cs_save(i)
    \/ \E i \in Procs : cs_fail(i)

RetrySpec == ConcInit /\ [][RetryNext]_vars

\* ======================================================================
\* Properties
\* ======================================================================
StatusOps == {"quotation_ajax_set_status", "quotation_detail"}
CreateOps == {"checkout", "guest_checkout", "quotation"}

\* C1 (ratchet).  Once a quotation's order_status is in POST_PAYMENT no step
\* takes it out of POST_PAYMENT, and a status request (either entry point)
\* whose submitted order_status is a status outside POST_PAYMENT is rejected
\* as irreversible and leaves order_status as it was.
C1_Ratchet ==
    [][/\ \A qid \in DOMAIN quotations :
            (/\ quotations[qid].order_status \in post_payment_statuses
             /\ qid \in DOMAIN quotations')
            => quotations'[qid].order_status \in post_payment_statuses
       /\ (/\ last'.op \in StatusOps
           /\ quotations[last'.qid].order_status \in post_payment_statuses
           /\ last'.os \in ORDER_STATUS_CHOICES \ post_payment_statuses)
          => /\ last'.result = "irreversible"
             /\ quotations'[last'.qid].order_status
                    = quotations[last'.qid].order_status
      ]_vars

\* sin_respuesta -> pago_recibido -> sin_respuesta: the second request was
\* rejected and the status is still pago_recibido
C1_Witness ==
    /\ last.op \in StatusOps
    /\ last.result = "irreversible"
    /\ last.prev = "pago_recibido"
    /\ last.os = "sin_respuesta"
    /\ quotations[last.qid].order_status = "pago_recibido"

\* C2 (payment proof required).  A status request whose submitted
\* order_status is in POST_PAYMENT, on a quotation without payment_proof, is
\* rejected: order_status keeps its value and no product's stock changes.
C2_ProofRequired ==
    [][(/\ last'.op \in StatusOps
        /\ last'.os \in post_payment_statuses
        /\ ~quotations[last'.qid].payment_proof)
       => /\ last'.result = "proof_required"
          /\ quotations'[last'.qid].order_status
                 = quotations[last'.qid].order_status
          /\ stock' = stock
      ]_vars

C2_Witness ==
    /\ last.op \in StatusOps
    /\ last.result = "proof_required"
    /\ last.os = "pago_recibido"
    /\ ~quotations[last.qid].payment_proof
    /\ quotations[last.qid].order_status = "sin_respuesta"
    /\ stock_deductions[last.qid] = << >>

\* C3 (exactly-once deduction, requests one after the other).  A status
\* request that takes order_status from outside POST_PAYMENT into POST_PAYMENT
\* lowers the stock of each item's product by the item's quantity (not below
\* zero) and is the quotation's only deduction; every other status request
\* (between POST_PAYMENT statuses, a repeated status, a rejected one) leaves
\* all stock as it was.
C3_DeductOnce ==
    [][last'.op \in StatusOps
       => LET qid == last'.qid
              q == quotations[qid]
          IN  IF /\ q.order_status \notin post_payment_statuses
                 /\ quotations'[qid].order_status \in post_payment_statuses
              THEN /\ \A p \in Products :
                        stock'[p] =
                            IF p \in DOMAIN q.items
                            THEN (IF stock[p] - q.items[p].quantity < 0 THEN 0
                                  ELSE stock[p] - q.items[p].quantity)
                            ELSE stock[p]
                   /\ Len(stock_deductions'[qid]) = 1
              ELSE /\ stock' = stock
                   /\ stock_deductions' = stock_deductions
      ]_vars

\* pago_recibido -> enviado was accepted and the one deduction made on entry
\* is still the only one
C3_Witness ==
    /\ last.op \in StatusOps
    /\ last.result = "applied"
    /\ last.prev = "pago_recibido"
    /\ last.os = "enviado"
    /\ edits = 0
    /\ Len(stock_deductions[last.qid]) = 1
    /\ \A p \in DOMAIN quotations[last.qid].items :
          /\ quotations[last.qid].items[p].quantity >= 1
          /\ stock[p] = stock_deductions[last.qid][1][p]
                            - quotations[last.qid].items[p].quantity

\* C6 (floor at zero).  Stock is never negative, and the step that deducts a
\* quotation's items leaves, for an item of quantity q on stock s,
\* max(0, s - q): exactly 0 when q exceeds s.
C6_FloorAtZero ==
    [][/\ \A p \in Products : stock[p] >= 0 /\ stock'[p] >= 0
       /\ \A qid \in DOMAIN quotations :
            Len(stock_deductions'[qid]) > Len(stock_deductions[qid])
            => \A p \in DOMAIN quotations[qid].items :
                  LET s == stock[p]
                      q == quotations[qid].items[p].quantity
                  IN  /\ stock'[p] = IF s - q < 0 THEN 0 ELSE s - q
                      /\ q > s => stock'[p] = 0
      ]_vars

\* a deduction has just taken more than there was: the stock is 0
C6_Witness ==
    /\ last.op \in StatusOps
    /\ last.result = "applied"
    /\ last.prev \notin post_payment_statuses
    /\ \E p \in DOMAIN quotations[last.qid].items :
          /\ Len(stock_deductions[last.qid]) = 1
          /\ quotations[last.qid].items[p].quantity
                > stock_deductions[last.qid][1][p]
          /\ stock[p] = 0

\* ---------------------------------------------------------------- ConcSpec
\* C4 (exactly-once deduction under concurrency).  Two status requests for
\* the same quotation (payment proof attached, order_status outside
\* POST_PAYMENT at the start), each with a POST_PAYMENT target: when both have
\* finished, in whatever order their reads and writes were interleaved, every
\* product's stock is the initial stock less the quotation's item quantity
\* taken once (not below zero).
C4_ConcurrentDeductOnce ==
    (/\ AllDone
     /\ req[1].qid = req[2].qid
     /\ req[1].os \in post_payment_statuses
     /\ req[2].os \in post_payment_statuses)
    => LET items == quotations[req[1].qid].items
       IN  \A p \in Products :
              stock[p] = IF p \in DOMAIN items
                         THEN (IF last.stock0[p] - items[p].quantity < 0 THEN 0
                               ELSE last.stock0[p] - items[p].quantity)
                         ELSE last.stock0[p]

\* C5 (no lost stock update).  Two different quotations holding the same
\* product make their first transition into POST_PAYMENT concurrently: when
\* both requests have finished, in every interleaving, the product's stock is
\* max(0, stock - q1 - q2), the result of the two deductions one after the
\* other.
C5_NoLostUpdate ==
    (/\ AllDone
     /\ req[1].qid # req[2].qid
     /\ req[1].os \in post_payment_statuses
     /\ req[2].os \in post_payment_statuses)
    => \A p \in Products :
          LET i1 == quotations[req[1].qid].items
              i2 == quotations[req[2].qid].items
              q1 == IF p \in DOMAIN i1 THEN i1[p].quantity ELSE 0
              q2 == IF p \in DOMAIN i2 THEN i2[p].quantity ELSE 0
          IN  stock[p] = IF last.stock0[p] - q1 - q2 < 0 THEN 0
                         ELSE last.stock0[p] - q1 - q2

\* ---------------------------------------------------------------- CartSpec
\* C7 (stock-bounded add).  add_to_cart of quantity q >= 1 of an available
\* product with stock s, on a cart that holds e of it (0 if absent): the add
\* succeeds iff e + q <= s; on success the entry becomes e + q and nothing
\* else in the cart changes; on failure the cart is unchanged and the
\* reported available stock is s.  The same for the persisted cart ("user")
\* and the session cart ("anon"); the other cart and the stock are untouched.
C7_StockBoundedAdd ==
    [][(/\ last'.op = "add_to_cart"
        /\ last'.q >= 1
        /\ available[last'.p])
       => LET who == last'.who
              p == last'.p
              q == last'.q
              c == IF who = "user" THEN cart_items ELSE session_cart
              c2 == IF who = "user" THEN cart_items' ELSE session_cart'
              e == IF p \in DOMAIN c THEN c[p] ELSE 0
              s == stock[p]
          IN  /\ last'.ok <=> (e + q <= s)
              /\ last'.ok =>
                    c2 = [x \in DOMAIN c \cup {p} |-> IF x = p THEN e + q ELSE c[x]]
              /\ ~last'.ok => (c2 = c /\ last'.available_stock = s)
              /\ who = "user" => session_cart' = session_cart
              /\ who = "anon" => cart_items' = cart_items
              /\ stock' = stock
      ]_vars

\* an add refused although the requested quantity alone is within stock:
\* it is the quantity already in the cart that makes it exceed
C7_Witness ==
    /\ last.op = "add_to_cart"
    /\ ~last.ok
    /\ last.q >= 1
    /\ last.cart_quantity >= 1
    /\ last.q <= last.available_stock
    /\ last.cart_quantity + last.q > last.available_stock
    /\ last.available_stock = stock[last.p]
    /\ Get(CartOf(last.who), last.p) = last.cart_quantity

\* C8 (live cart total).  What a read of the cart (cart page, context
\* processor) reports as the total is the sum over all entries of the cart of
\* the product's current selling price times the entry's quantity, for the
\* persisted cart and for the session cart.
C8_LiveTotal ==
    last.op \in {"cart", "context_cart"}
    => LET c == CartOf(last.who)
       IN  last.cart_total =
              SumOver(DOMAIN c,
                      [p \in DOMAIN c |->
                          (IF promotional_price[p] # NoPromo
                              /\ promotional_price[p] < price[p]
                           THEN promotional_price[p] ELSE price[p]) * c[p]])

\* ------------------------------------------------------------ SnapshotSpec
\* C9 (price snapshot is frozen).  No step changes the unit_price or the
\* subtotal of an item of an existing quotation; in particular not an
\* inventory_edit that changes the product's price or promotional_price.
C9_SnapshotFrozen ==
    [][\A qid \in DOMAIN quotations :
          /\ qid \in DOMAIN quotations'
          /\ \A p \in DOMAIN quotations[qid].items :
                /\ p \in DOMAIN quotations'[qid].items
                /\ quotations'[qid].items[p].unit_price
                       = quotations[qid].items[p].unit_price
                /\ quotations'[qid].items[p].subtotal
                       = quotations[qid].items[p].subtotal
      ]_vars

\* a product of an existing quotation has just been re-priced: the item's
\* unit_price is no longer the product's selling price
C9_Witness ==
    /\ last.op = "inventory_edit"
    /\ last.ok
    /\ \E qid \in DOMAIN quotations :
          /\ last.p \in DOMAIN quotations[qid].items
          /\ quotations[qid].items[last.p].unit_price
                # (IF promotional_price[last.p] # NoPromo
                      /\ promotional_price[last.p] < price[last.p]
                   THEN promotional_price[last.p] ELSE price[last.p])
          /\ quotations[qid].items[last.p].subtotal
                = quotations[qid].items[last.p].unit_price
                    * quotations[qid].items[last.p].quantity

\* C10 (snapshot price value).  In the step in which checkout, guest_checkout
\* or the staff quotation view creates a quotation, each created item's
\* unit_price is the product's selling price of that moment: the promotional
\* price if there is one and it is lower than the list price, else the list
\* price.
C10_SnapshotValue ==
    [][(last'.op \in CreateOps /\ last'.ok)
       => /\ last'.qid \in DOMAIN quotations' \ DOMAIN quotations
          /\ \A p \in DOMAIN quotations'[last'.qid].items :
                quotations'[last'.qid].items[p].unit_price =
                    IF promotional_price[p] # NoPromo
                       /\ promotional_price[p] < price[p]
                    THEN promotional_price[p] ELSE price[p]
      ]_vars

\* a quotation just created with one item at its promotional price and one,
\* whose promotional price is not lower than the list price, at its list price
C10_Witness ==
    /\ last.op \in CreateOps
    /\ last.ok
    /\ \E p1, p2 \in DOMAIN quotations[last.qid].items :
          /\ promotional_price[p1] # NoPromo
          /\ promotional_price[p1] < price[p1]
          /\ quotations[last.qid].items[p1].unit_price = promotional_price[p1]
          /\ promotional_price[p2] # NoPromo
          /\ promotional_price[p2] >= price[p2]
          /\ quotations[last.qid].items[p2].unit_price = price[p2]

\* --------------------------------------------------------------- TotalSpec
\* C11 (total invariant).  After every step, each quotation's total is the
\* sum of the subtotals of its items, and no step (status update, proof
\* upload, stock deduction, product price edit) changes the total of an
\* existing quotation.
C11_TotalInvariant ==
    [][/\ \A qid \in DOMAIN quotations' :
            quotations'[qid].total =
                SumOver(DOMAIN quotations'[qid].items,
                        [p \in DOMAIN quotations'[qid].items |->
                            quotations'[qid].items[p].subtotal])
       /\ \A qid \in DOMAIN quotations :
            qid \in DOMAIN quotations'
            => quotations'[qid].total = quotations[qid].total
      ]_vars

\* a paid quotation (proof uploaded, stock deducted) one of whose products
\* has just been re-priced: the total is still the sum of the subtotals and
\* no longer what the current prices would give
C11_Witness ==
    /\ last.op = "inventory_edit"
    /\ last.ok
    /\ \E qid \in DOMAIN quotations :
          LET q == quotations[qid]
          IN  /\ last.p \in DOMAIN q.items
              /\ q.order_status \in post_payment_statuses
              /\ q.payment_proof
              /\ Len(stock_deductions[qid]) = 1
              /\ q.total > 0
              /\ q.total = SumOver(DOMAIN q.items,
                                   [p \in DOMAIN q.items |-> q.items[p].subtotal])
              /\ q.total # SumOver(DOMAIN q.items,
                                   [p \in DOMAIN q.items |->
                                       (IF promotional_price[p] # NoPromo
                                           /\ promotional_price[p] < price[p]
                                        THEN promotional_price[p] ELSE price[p])
                                       * q.items[p].quantity])

\* ------------------------------------------------------------ SnapshotSpec
\* C12 (checkout consumes the cart).  A successful checkout or guest_checkout
\* creates a quotation with exactly one item per entry of the originating
\* cart (persisted items, session cart), same product and same quantity, and
\* leaves that cart empty; a quotation generated by the staff quotation view
\* leaves the quotation-builder session empty.
C12_CheckoutConsumesCart ==
    [][/\ (last'.op \in {"checkout", "guest_checkout"} /\ last'.ok)
          => LET c == IF last'.op = "checkout" THEN cart_items ELSE session_cart
                 c2 == IF last'.op = "checkout" THEN cart_items' ELSE session_cart'
                 items == quotations'[last'.qid].items
             IN  /\ DOMAIN items = DOMAIN c
                 /\ \A p \in DOMAIN c : p \in DOMAIN items => items[p].quantity = c[p]
                 /\ DOMAIN c2 = {}
       /\ (last'.op = "quotation" /\ last'.ok) => DOMAIN session_quotation' = {}
      ]_vars

\* -------------------------------------------------------------- CreateSpec
\* C13 (atomic quotation creation).  In every reachable state each persisted
\* quotation has all the items of the request that created it and a total
\* equal to the sum of their subtotals, and after a request that failed
\* part-way no quotation is persisted and the cart is as it was.
C13_AtomicCreation ==
    /\ \A qid \in DOMAIN quotations :
          /\ quotations[qid].total =
                SumOver(DOMAIN quotations[qid].items,
                        [p \in DOMAIN quotations[qid].items |->
                            quotations[qid].items[p].subtotal])
          /\ (req[1].pc # "start" /\ req[1].qid = qid)
             => DOMAIN quotations[qid].items = DOMAIN req[1].entries
    /\ req[1].pc = "failed" => DOMAIN quotations = {}

C15_DeletionGuard ==
    [][last'.op = "quotation_delete"
       => LET qid == last'.qid
              guarded == /\ quotations[qid].order_status \in post_payment_statuses
                         /\ ~last'.is_superuser
          IN  /\ guarded => quotations' = quotations
              /\ (~guarded /\ last'.post)
                 => /\ qid \notin DOMAIN quotations'
                    /\ \A x \in DOMAIN quotations \ {qid} :
                          x \in DOMAIN quotations' /\ quotations'[x] = quotations[x]
              /\ (~guarded /\ ~last'.post) => quotations' = quotations
      ]_vars

\* a staff user's deletion request on a paid quotation was refused: the
\* quotation and its items are still there
C15_Witness ==
    /\ last.op = "quotation_delete"
    /\ last.post
    /\ ~last.is_superuser
    /\ last.result = "refused"
    /\ last.qid \in DOMAIN quotations
    /\ quotations[last.qid].order_status \in post_payment_statuses
    /\ DOMAIN quotations[last.qid].items # {}

\* ------------------------------------------------------------ SnapshotSpec
\* C16 (best-effort notification).  Whatever happens to the notification
\* (a credential missing, the text not sent, the document not rendered or not
\* sent), a checkout or guest_checkout that created a quotation completes
\* successfully: nothing is raised, the quotation is persisted with its items
\* and with the total of their subtotals, and the cart is empty.  Without
\* token or chat_id nothing is attempted and nothing fails.
C16_BestEffortNotification ==
    [][(last'.op \in {"checkout", "guest_checkout"}
        /\ "notification" \in DOMAIN last')
       => LET qid == last'.qid
              c2 == IF last'.op = "checkout" THEN cart_items' ELSE session_cart'
          IN  /\ last'.ok
              /\ ~last'.notification.raised
              /\ qid \in DOMAIN quotations' \ DOMAIN quotations
              /\ DOMAIN quotations'[qid].items # {}
              /\ quotations'[qid].total =
                    SumOver(DOMAIN quotations'[qid].items,
                            [p \in DOMAIN quotations'[qid].items |->
                                quotations'[qid].items[p].subtotal])
              /\ DOMAIN c2 = {}
      ]_vars

\* the text could not be sent and the document could not be rendered: the
\* checkout succeeded all the same
C16_Witness ==
    /\ last.op \in {"checkout", "guest_checkout"}
    /\ "notification" \in DOMAIN last
    /\ last.ok
    /\ last.notification.text = "failed"
    /\ last.notification.document = "not_rendered"
    /\ last.qid \in DOMAIN quotations
    /\ quotations[last.qid].total > 0
    /\ DOMAIN (IF last.op = "checkout" THEN cart_items ELSE session_cart) = {}

\* ------------------------------------------------------------- CartOpsSpec
\* C17 (additive merge on login).  A guest_checkout_login that authenticates
\* leaves, for every entry (p, q) of the session cart, the persisted cart's
\* quantity of p at its previous quantity (0 if absent) plus q, leaves every
\* other persisted entry as it was, and leaves the session cart empty; one
\* that fails to authenticate changes neither cart.
C17_AdditiveMerge ==
    [][last'.op = "guest_checkout_login"
       => IF last'.ok
          THEN /\ DOMAIN cart_items' = DOMAIN cart_items \cup DOMAIN session_cart
               /\ \A p \in DOMAIN session_cart :
                     /\ p \in DOMAIN cart_items'
                     /\ cart_items'[p] = Get(cart_items, p) + session_cart[p]
               /\ \A p \in DOMAIN cart_items \ DOMAIN session_cart :
                     /\ p \in DOMAIN cart_items'
                     /\ cart_items'[p] = cart_items[p]
               /\ DOMAIN session_cart' = {}
          ELSE /\ cart_items' = cart_items
               /\ session_cart' = session_cart
      ]_vars

\* C18 (positive-quantity invariant).  In every reachable state every entry
\* of the persisted cart and of the session cart has quantity >= 1.
C18_PositiveQuantity ==
    /\ \A p \in DOMAIN cart_items : cart_items[p] >= 1
    /\ \A p \in DOMAIN session_cart : session_cart[p] >= 1

\* C19 (stock-bounded update).  update_cart_item with quantity q on a cart
\* that holds an entry for the product: for 1 <= q <= stock the entry becomes
\* q and nothing else in the cart changes; for q > stock the cart is
\* unchanged and the stock is reported; for q <= 0 the entry is removed.  The
\* same for the persisted cart and the session cart.
C19_StockBoundedUpdate ==
    [][(/\ last'.op = "update_cart_item"
        /\ last'.p \in DOMAIN (IF last'.who = "user" THEN cart_items
                               ELSE session_cart))
       => LET who == last'.who
              p == last'.p
              q == last'.q
              c == IF who = "user" THEN cart_items ELSE session_cart
              c2 == IF who = "user" THEN cart_items' ELSE session_cart'
          IN  /\ (q >= 1 /\ q <= stock[p])
                    => c2 = [x \in DOMAIN c |-> IF x = p THEN q ELSE c[x]]
              /\ (q >= 1 /\ q > stock[p])
                    => (c2 = c /\ last'.available_stock = stock[p])
              /\ q <= 0 => c2 = [x \in DOMAIN c \ {p} |-> c[x]]
      ]_vars

\* C20 (unconditional remove).  remove_from_cart leaves the cart without the
\* product's entry and with every other entry as it was; when the entry was
\* absent no error is reported and the cart is unchanged.  The same for the
\* persisted cart and the session cart.
C20_UnconditionalRemove ==
    [][last'.op = "remove_from_cart"
       => LET who == last'.who
              p == last'.p
              c == IF who = "user" THEN cart_items ELSE session_cart
              c2 == IF who = "user" THEN cart_items' ELSE session_cart'
          IN  /\ c2 = [x \in DOMAIN c \ {p} |-> c[x]]
              /\ p \notin DOMAIN c => (last'.ok /\ last'.error = "none")
      ]_vars

\* ---------------------------------------------------------------- CartSpec
\* C21 (add preconditions).  An add_to_cart request with a requested quantity
\* below 1, or for a product that is not available, fails and leaves both
\* carts unchanged.
C21_AddPreconditions ==
    [][(/\ last'.op = "add_to_cart"
        /\ (last'.q < 1 \/ ~available[last'.p]))
       => /\ ~last'.ok
          /\ cart_items' = cart_items
          /\ session_cart' = session_cart
      ]_vars

\* -------------------------------------------------------------------- Spec
\* C22 (rejected is absorbing).  Once a quotation's order_status is
\* rechazado, no later request changes it: every step leaves it rechazado.
C22_RejectedAbsorbing ==
    [][\A qid \in DOMAIN quotations :
          quotations[qid].order_status = "rechazado"
          => /\ qid \in DOMAIN quotations'
             /\ quotations'[qid].order_status = "rechazado"
      ]_vars

\* ---------------------------------------------------------------- PriceSpec
\* C23 as stated (selling price).  For every product, the selling price read
\* equals promotional_price iff promotional_price is present and strictly
\* lower than price; in every other case it equals price.
C23_SellingPriceIff ==
    last.op = "selling_price"
    => LET p == last.p
           lower == promotional_price[p] # NoPromo
                      /\ promotional_price[p] < price[p]
       IN  /\ (last.value = promotional_price[p]) <=> lower
           /\ ~lower => last.value = price[p]

\* C23 amended (selling price).  For every product, the selling price read
\* is promotional_price when promotional_price is present and strictly lower
\* than price, and price in every other case (no promotional price, or
\* promotional price >= price); it differs from promotional_price only when
\* there is none or it is higher than price (when the two prices are equal
\* the selling price, being price, equals both).
C23_SellingPrice ==
    last.op = "selling_price"
    => LET p == last.p
           lower == promotional_price[p] # NoPromo
                      /\ promotional_price[p] < price[p]
       IN  /\ lower => last.value = promotional_price[p]
           /\ ~lower => last.value = price[p]
           /\ last.has_discount <=> lower
           /\ last.value # promotional_price[p]
                => (promotional_price[p] = NoPromo
                      \/ promotional_price[p] > price[p])

\* a product whose promotional price is above its list price is read: it
\* sells at the list price, while the other product sells at its lower
\* promotional price
C23_Witness ==
    /\ last.op = "selling_price"
    /\ promotional_price[last.p] # NoPromo
    /\ promotional_price[last.p] > price[last.p]
    /\ last.value = price[last.p]
    /\ \E p1 \in Products \ {last.p} :
          /\ promotional_price[p1] # NoPromo
          /\ promotional_price[p1] < price[p1]
          /\ selling_price(p1) = promotional_price[p1]

\* -------------------------------------------------------------- AddressSpec
\* C24 (single default address).  In every reachable state at most one of
\* the user's shipping addresses has is_default = TRUE, also when two saves
\* with is_default = TRUE for the same user run concurrently.
C24_SingleDefault ==
    Cardinality({a \in DOMAIN shipping_addresses : shipping_addresses[a]}) <= 1

\* ---------------------------------------------------------------- OrderSpec
\* C25 (subtotal invariant).  In every reachable state every stored
\* quotation item has subtotal = unit_price x quantity, whatever quantity is
\* stored.
C25_SubtotalInvariant ==
    \A qid \in DOMAIN quotations :
        \A p \in DOMAIN quotations[qid].items :
            quotations[qid].items[p].subtotal =
                quotations[qid].items[p].unit_price
                  * quotations[qid].items[p].quantity

\* C30 (quoted quantity is within stock).  Every item of a quotation created
\* by checkout or guest_checkout has a quantity of at least 1 and at most the
\* product's stock at the moment of creation.
C30_QuotedWithinStock ==
    [][(last'.op \in {"checkout", "guest_checkout"} /\ last'.ok)
       => \A p \in DOMAIN quotations'[last'.qid].items :
             /\ quotations'[last'.qid].items[p].quantity >= 1
             /\ quotations'[last'.qid].items[p].quantity <= stock[p]
      ]_vars

\* ---------------------------------------------------------------- StockSpec
\* C26 (stock writers).  A step changes a product's stock only if it is a
\* status update (the stock commit) or a staff inventory edit; add_to_cart,
\* update_cart_item, remove_from_cart, the cart merge on login and quotation
\* creation (checkout, guest_checkout, the staff quotation view) leave every
\* product's stock unchanged.
C26_StockWriters ==
    [][/\ stock' # stock
            => last'.op \in {"quotation_ajax_set_status", "quotation_detail",
                             "inventory_edit"}
       /\ last'.op \in {"add_to_cart", "update_cart_item", "remove_from_cart",
                        "guest_checkout_login", "checkout", "guest_checkout",
                        "quotation"}
            => stock' = stock
      ]_vars

\* a quotation has just been created from a cart that held the whole stock
\* of a product: the stock is still all there
C26_Witness ==
    /\ last.op \in CreateOps
    /\ last.ok
    /\ \E p \in DOMAIN quotations[last.qid].items :
          /\ quotations[last.qid].items[p].quantity = MaxStock
          /\ stock[p] = MaxStock

\* -------------------------------------------------------------------- Spec
\* C27 (proof accompanies post-payment).  In every reachable state a
\* quotation whose order_status is in POST_PAYMENT has a payment proof
\* attached.
C27_ProofAccompanies ==
    \A qid \in DOMAIN quotations :
        quotations[qid].order_status \in post_payment_statuses
        => quotations[qid].payment_proof

\* a status request has just taken a quotation with a proof attached into
\* POST_PAYMENT
C27_Witness ==
    /\ last.op \in StatusOps
    /\ last.result = "applied"
    /\ last.os \in post_payment_statuses
    /\ last.prev \notin post_payment_statuses
    /\ quotations[last.qid].order_status = last.os
    /\ quotations[last.qid].payment_proof

\* C28 (equivalent entry points).  From the quotation a status request finds
\* and for every submitted pair (quotation_status, order_status),
\* quotation_ajax_set_status and quotation_detail leave the same persisted
\* quotation_status and order_status (and deduct the same stock), also when
\* the order_status change is refused while a quotation_status change is
\* submitted with it.
C28_EquivalentEntryPoints ==
    [][last'.op \in StatusOps
       => LET q == quotations[last'.qid]
              os == last'.os
          IN  \A qs \in QsInputs :
                 /\ ajax_set_status_saved(q, qs, os).quotation_status
                      = detail_saved(q, qs, os).quotation_status
                 /\ ajax_set_status_saved(q, qs, os).order_status
                      = detail_saved(q, qs, os).order_status
      ]_vars

\* ---------------------------------------------------------------- RetrySpec
\* C29 (deduction and status change commit together).  Whenever no request
\* is running, also after a request died between its stock writes and the
\* save of order_status, the stock shows the items of exactly the quotations
\* whose order_status is in POST_PAYMENT as deducted, each once and in full:
\* every product's stock is the initial stock less the quantities of those
\* quotations (not below zero).
C29_CommitTogether ==
    (\A i \in Procs : req[i].pc \in {"start", "done", "failed"})
    => \A p \in Products :
          LET paid == {qid \in DOMAIN quotations :
                          /\ quotations[qid].order_status \in post_payment_statuses
                          /\ p \in DOMAIN quotations[qid].items}
          IN  stock[p] =
                Max0(last.stock0[p]
                       - SumOver(paid, [qid \in paid |->
                                           quotations[qid].items[p].quantity]))
====
